---------------------------- MODULE Spec2Model ----------------------------
(***************************************************************************)
(* The search page of safe-search as a state machine.                      *)
(*                                                                         *)
(* Two sources define a SearchPage component:                              *)
(*   src/frontend/src/components/SearchPage.jsx   (variant "jsx")          *)
(*   src/unnamed/part_000, lines 255-421          (variant "part000")      *)
(* A behaviour is the life of one mounted page of one of the two.  The     *)
(* React state (query, field, results, meta, logs, loading) and the props  *)
(* (role, auditor, privateKey) are the variables.  handleSearch is an      *)
(* async function: the code between two awaits runs without interruption,  *)
(* so every segment between two awaits is one action, and a run that is    *)
(* suspended at an await is a record in inflight holding the values its    *)
(* closure captured and the await it is parked at.                         *)
(*                                                                         *)
(* Strings that the code inspects character by character (the query, the   *)
(* auditor id, hex digests) are sequences of one-character strings.  Log   *)
(* lines are sequences of text fragments, so that a template literal such  *)
(* as `Error: ${code}` is <<"Error: ", code>>.  A value that may be null   *)
(* (auditor, meta) is a sequence of length 0 or 1.                         *)
(***************************************************************************)
EXTENDS Integers, Sequences, FiniteSets

(***************************************************************************)
(* Bounds of the model.                                                    *)
(***************************************************************************)
\* meta.total_matches ranges over 0..MaxMatches
MaxMatches == 1
\* the service returns at most MaxResults result records
MaxResults == 1
\* at most MaxInflight runs of handleSearch are tracked at once
MaxInflight == 2

(***************************************************************************)
(* Values.                                                                 *)
(***************************************************************************)
JSX == "jsx"
PART000 == "part000"
Variants == {JSX, PART000}

Roles == {"internal", "external"}

\* the <option> values of the dropdown, SearchPage.jsx:137-141
FieldOptions == {"pan", "customer_id", "aadhaar", "name", "compliance_flag"}

\* null, undefined and "" are all falsy for `!privateKey`
NoKey == ""
Keys == {NoKey, "key1", "key2"}

NoAuditor == <<>>
Auditor1 == <<[auditor_id |-> <<"a", "1">>, name |-> "Asha", active_key_version |-> 1]>>
Auditors == {NoAuditor, Auditor1}

\* what the user can type into the input: nothing, a keyword that
\* normalization changes, and a keyword that happens to be an auditor id
EmptyQuery == <<>>
Queries == {EmptyQuery, <<"A", " ">>, <<"a", "1">>}

\* a test that takes every string for a value
NeverFalsy(s) == FALSE

\* `!x` of JavaScript on a string
Falsy(s) == Len(s) = 0

Last(s) == s[Len(s)]
Front(s) == SubSeq(s, 1, Len(s) - 1)

(***************************************************************************)
(* ../utils/crypto is not among the sources: normalizeKeyword, sha256Hex   *)
(* and signHashHex are modelled from the specification's contracts         *)
(* (section 4.1, 4.2): normalization folds case and surrounding            *)
(* whitespace, the hash is a deterministic fixed-length hex string, the    *)
(* signature is a hex string computed from the hash and the key.           *)
(***************************************************************************)
Lower(c) == IF c = "A" THEN "a" ELSE c

RECURSIVE TrimLeft(_)
TrimLeft(s) == IF s # <<>> /\ s[1] = " " THEN TrimLeft(Tail(s)) ELSE s

RECURSIVE TrimRight(_)
TrimRight(s) == IF s # <<>> /\ Last(s) = " " THEN TrimRight(Front(s)) ELSE s

normalizeKeyword(s) ==
    LET t == TrimRight(TrimLeft(s))
    IN  [i \in 1..Len(t) |-> Lower(t[i])]

\* a SHA-256 digest in hex has 64 digits
HashHexLen == 64

HexDigits == <<"0", "1", "2", "3", "4", "5", "6", "7",
               "8", "9", "a", "b", "c", "d", "e", "f">>

HexVal(c) == CHOOSE j \in 0..15 : HexDigits[j + 1] = c

CharCode(c) ==
    CASE c = "a" -> 97
      [] c = "A" -> 65
      [] c = "1" -> 49
      [] c = " " -> 32
      [] OTHER   -> 63

RECURSIVE HashAcc(_)
HashAcc(s) ==
    IF s = <<>> THEN 5381
    ELSE (HashAcc(Front(s)) * 33 + CharCode(Last(s))) % 65536

sha256Hex(s) ==
    LET acc == HashAcc(s)
    IN  [i \in 1..HashHexLen |-> HexDigits[(((acc \div i) + acc * i) % 16) + 1]]

KeyCode(k) == IF k = "key1" THEN 3 ELSE IF k = "key2" THEN 5 ELSE 0

signHashHex(h, k) ==
    [i \in 1..Len(h) |-> HexDigits[((HexVal(h[i]) + KeyCode(k) * i) % 16) + 1]]

(***************************************************************************)
(* Errors.  An error object is [name, message, hasError, code]: hasError   *)
(* says whether err.response?.data?.error is truthy, and code is           *)
(* err.response.data.error.code.  The client-side stage errors are those   *)
(* of the specification (section 4.2, 7); ../services/api is not among the *)
(* sources, so the rejections of api.post are modelled from the error      *)
(* response of section 6.                                                  *)
(***************************************************************************)
Err(n, m) == [name |-> n, message |-> m, hasError |-> FALSE, code |-> ""]
ServiceError(c) ==
    [name |-> "ServiceError", message |-> "Request failed", hasError |-> TRUE, code |-> c]

ServiceCodes == {"INVALID_SIGNATURE", "AUDITOR_NOT_FOUND"}

NormalizeErrors == {Err("TypeError", "keyword is not a string")}
HashErrors == {Err("OperationError", "digest failed")}
SignErrors == {Err("SigningError", "malformed key")}
RequestErrors ==
    {Err("NetworkError", "Network Error"), Err("UnknownError", "Request failed")}
        \cup {ServiceError(c) : c \in ServiceCodes}

(***************************************************************************)
(* Responses of the search service (section 6): result records and meta.   *)
(***************************************************************************)
Record(i) == [id |-> i]
ResultSets == {[i \in 1..n |-> Record(i)] : n \in 0..MaxResults}

NoMeta == <<>>
Meta(n, returned) ==
    <<[total_matches |-> n, returned_count |-> returned,
       execution_time_ms |-> 12, truncated |-> FALSE]>>
Responses ==
    {[results |-> rs, meta |-> m] :
        rs \in ResultSets,
        m \in {NoMeta} \cup {Meta(n, 0) : n \in 0..MaxMatches}}


(***************************************************************************)
(* State.                                                                  *)
(***************************************************************************)
VARIABLES
    variant,        \* which source file the mounted SearchPage comes from
    role,           \* prop role
    auditor,        \* prop auditor (jsx): NoAuditor or <<the auditor>>
    privateKey,     \* prop privateKey (jsx); localStorage "auditor_private_key" (part000)
    query,          \* useState("")
    field,          \* useState("pan") (jsx)
    results,        \* useState([])
    meta,           \* useState(null): NoMeta or <<the meta>>
    logs,           \* useState(["Awaiting search query..."])
    loading,        \* useState(false)
    inflight,       \* the runs of handleSearch suspended at an await
    ended,          \* the run that returned last, and how: <<>> while none has since the last began
    consoleErrors,  \* what console.error was handed since the last search began
    snap,           \* an observer's copy of an ended search (two-run comparisons)
    metricsRole,    \* MetricsPage: prop role
    internalData,   \* MetricsPage: useState(null)
    externalData,   \* MetricsPage: useState(null)
    metricsLoading, \* MetricsPage: loading, useState(true)
    metricsError,   \* MetricsPage: error, useState(null)
    fetches,        \* MetricsPage: the calls of fetchMetrics suspended at api.get
    deletes,        \* MetricsPage: the calls of handleDeleteAuditor suspended at api.delete
    settled,        \* MetricsPage: how the fetch that settled last ended
    metricsConsole, \* MetricsPage: what console.error was handed last
    alerted         \* MetricsPage: the text alert() showed last

\* the state of the search page
searchVars == <<variant, role, auditor, privateKey, query, field, results, meta,
                logs, loading, inflight, ended, consoleErrors, snap>>

\* the state of the metrics page
metricsVars == <<metricsRole, internalData, externalData, metricsLoading,
                 metricsError, fetches, deletes, settled, metricsConsole, alerted>>

vars == <<variant, role, auditor, privateKey, query, field, results, meta,
          logs, loading, inflight, ended, consoleErrors, snap,
          metricsRole, internalData, externalData, metricsLoading,
          metricsError, fetches, deletes, settled, metricsConsole, alerted>>

props == <<variant, role, auditor, privateKey>>

(***************************************************************************)
(* The lines handleSearch writes to the log.  The check mark that ends     *)
(* the completion lines in the source is left out of the text.             *)
(***************************************************************************)
L_Awaiting == <<"Awaiting search query...">>
L_Preparing == <<"Preparing search...">>
L_Trapdoor == <<"Generating HMAC trapdoor...">>
L_SendInternal == <<"Sending request to /api/search/internal/">>
L_InternalComplete == <<"Internal search complete">>
L_NoPrivateKey == <<"No auditor private key found">>
L_NoIdentity == <<"No auditor identity found">>
L_Normalizing == <<"Normalizing keyword...">>
L_Hashing == <<"Hashing keyword (SHA256)...">>
L_Signing == <<"Signing hash with RSA private key...">>
L_SendExternal == <<"Sending request to /api/search/external/">>
L_Received == <<"Encrypted results received">>
L_Unknown == <<"Unknown error occurred">>

\* the closure of a run: the state and props handleSearch read when it was
\* created by the render the click happened in.  A run carries the captured
\* values its branch reads: the internal branch reads query and field, the
\* external branch query, privateKey and auditor.
NewRun ==
    [query |-> query, role |-> role,
     field |-> IF role = "internal" THEN field ELSE "pan",
     privateKey |-> IF role = "external" THEN privateKey ELSE NoKey,
     auditor |-> IF role = "external" THEN auditor ELSE NoAuditor,
     pc |-> "start", normalized |-> <<>>, keywordHash |-> <<>>,
     signature |-> <<>>, payload |-> <<>>, res |-> <<>>]

At(r, label) == [r EXCEPT !.pc = label]

Suspend(r) == inflight' = inflight \cup {r}
Move(r, r2) == inflight' = (inflight \ {r}) \cup {r2}
\* run r returns: exit says how, e is the error it caught, res the response
Finish(r, exit, e, res) ==
    /\ inflight' = inflight \ {r}
    /\ ended' = <<[run |-> [r EXCEPT !.res = res], exit |-> exit, err |-> e]>>

\* <button onClick={handleSearch} disabled={loading}>
ButtonDisabledNever(l) == FALSE
ButtonDisabled(l) == l

\* finally { setLoading(false) }, and setLoading(false) before an early return
FinallySkipped(l) == l
FinallyLoading(l) == FALSE

(***************************************************************************)
(* MetricsPage, part_000 lines 1-254: values.                              *)
(***************************************************************************)
\* at most MaxFetches calls of fetchMetrics, and as many of
\* handleDeleteAuditor, are suspended at once
MaxFetches == 2
\* the metrics service reports at most MaxAuditors auditors
MaxAuditors == 1

\* the prop role of MetricsPage: absent, or a role name in either case
NoRole == ""
MetricsRoles == {NoRole, "INTERNAL", "internal", "external"}

\* role?.toLowerCase() || "internal", line 6
resolvedRole(ro) ==
    IF ro = NoRole THEN "internal"
    ELSE IF ro = "INTERNAL" THEN "internal"
    ELSE ro

\* resolvedRole === "internal", line 7
isInternal(ro) == resolvedRole(ro) = "internal"

\* null of useState(null), and the {} that stands in for a response without data
NoData == <<>>
EmptyObject == <<[total_documents |-> <<>>, auditors |-> 0]>>

\* res.data?.data of a response of /api/metrics/...: undefined, or an object
\* with the documents count and the auditors
MetricsPayloads ==
    {NoData} \cup {<<[total_documents |-> <<7>>, auditors |-> n]>> : n \in 0..MaxAuditors}

\* res.data?.data || {}, lines 21 and 24
OrEmptyObject(d) == IF d = NoData THEN EmptyObject ELSE d

ErrorText == <<"Failed to load metrics">>
NoError == <<>>

\* an id no suspended call in the set uses
FreeId(calls) == CHOOSE i \in 1..MaxFetches : \A c \in calls : c.id # i

\* the page after it was mounted with role ro: the state of lines 9-13, and
\* the call of fetchMetrics the effect of lines 34-36 makes, suspended at api.get
MetricsMounted(ro) ==
    /\ metricsRole = ro
    /\ internalData = NoData
    /\ externalData = NoData
    /\ metricsLoading = TRUE
    /\ metricsError = NoError
    /\ fetches = {[id |-> 1, isInternal |-> isInternal(ro)]}
    /\ deletes = {}
    /\ settled = <<>>
    /\ metricsConsole = <<>>
    /\ alerted = <<>>

Init ==
    /\ MetricsMounted(NoRole)
    /\ variant \in Variants
    /\ role \in Roles
    /\ auditor \in (IF variant = JSX THEN Auditors ELSE {NoAuditor})
    /\ privateKey \in Keys
    /\ query = EmptyQuery
    /\ field = "pan"
    /\ results = <<>>
    /\ meta = NoMeta
    /\ logs = <<L_Awaiting>>
    /\ loading = FALSE
    /\ inflight = {}
    /\ ended = <<>>
    /\ consoleErrors = <<>>
    /\ snap = <<>>

(***************************************************************************)
(* The page's controls and its parent.                                     *)
(***************************************************************************)
\* <input onChange={(e) => setQuery(e.target.value)}>
setQuery(q) ==
    /\ query' = q
    /\ UNCHANGED <<props, field, results, meta, logs, loading, inflight, ended,
                   consoleErrors, snap>>
    /\ UNCHANGED metricsVars

\* <select onChange={(e) => setField(e.target.value)}>, rendered for the
\* internal role only
setField(f) ==
    /\ variant = JSX
    /\ role = "internal"
    /\ field' = f
    /\ UNCHANGED <<props, query, results, meta, logs, loading, inflight, ended,
                   consoleErrors, snap>>
    /\ UNCHANGED metricsVars

\* the parent renders the page again with another role
SetRole(ro) ==
    /\ role' = ro
    /\ UNCHANGED <<variant, auditor, privateKey, query, field, results, meta,
                   logs, loading, inflight, ended, consoleErrors, snap>>
    /\ UNCHANGED metricsVars

\* the parent renders the page again with another auditor (jsx)
SetAuditor(au) ==
    /\ variant = JSX
    /\ auditor' = au
    /\ UNCHANGED <<variant, role, privateKey, query, field, results, meta,
                   logs, loading, inflight, ended, consoleErrors, snap>>
    /\ UNCHANGED metricsVars

\* the parent renders the page again with another key (jsx); another page
\* writes or clears localStorage "auditor_private_key" (part000)
SetPrivateKey(pk) ==
    /\ privateKey' = pk
    /\ UNCHANGED <<variant, role, auditor, query, field, results, meta,
                   logs, loading, inflight, ended, consoleErrors, snap>>
    /\ UNCHANGED metricsVars

(***************************************************************************)
(* SearchPage.jsx: handleSearch, lines 19-109.                             *)
(***************************************************************************)
\* a catch block that names the query it failed for
CatchLine_leaky(err) == <<"Search failed for ", query>>

\* catch (err) { ... }: the line the catch block logs, lines 98-105
CatchLine_jsx(err) ==
    IF err.hasError THEN <<"Error: ", err.code>> ELSE L_Unknown

\* a catch with setLoading(false) at the end of the try block instead of in
\* a finally
Catch_jsx_noFinally(r, err, lg) ==
    /\ consoleErrors' = Append(consoleErrors, err)
    /\ logs' = Append(lg, CatchLine_jsx(err))
    /\ loading' = loading
    /\ Finish(r, "failed", <<err>>, <<>>)
    /\ UNCHANGED <<results, meta>>

\* a catch block that sets the log to the failure line alone
Catch_jsx_replacesLog(r, err, lg) ==
    /\ consoleErrors' = Append(consoleErrors, err)
    /\ logs' = <<CatchLine_jsx(err)>>
    /\ loading' = FinallyLoading(loading)
    /\ Finish(r, "failed", <<err>>, <<>>)
    /\ UNCHANGED <<results, meta>>

\* a catch block that throws the error again after the finally
Catch_jsx_rethrow(r, err, lg) ==
    /\ consoleErrors' = Append(consoleErrors, err)
    /\ logs' = lg
    /\ loading' = FinallyLoading(loading)
    /\ Finish(r, "thrown", <<err>>, <<>>)
    /\ UNCHANGED <<results, meta>>

\* catch and finally, lines 95-108, entered by run r with error err when
\* the log is lg
Catch_jsx(r, err, lg) ==
    /\ consoleErrors' = Append(consoleErrors, err)
    /\ logs' = Append(lg, CatchLine_jsx(err))
    /\ loading' = FinallyLoading(loading)
    /\ Finish(r, "failed", <<err>>, <<>>)
    /\ UNCHANGED <<results, meta>>

\* a page that does not test the auditor
IdentityNotChecked(a) == FALSE

\* if (!auditor), line 58
MissingIdentity(a) == a = NoAuditor

\* a start that leaves the meta of the search before in place
KeptMeta(m) == m

\* setMeta(null), line 25
ClearedMeta(m) == NoMeta

\* the click, up to the first await (or the return), lines 19-64
handleSearch_jsx ==
    /\ variant = JSX
    /\ ~ButtonDisabled(loading)
    /\ Cardinality(inflight) < MaxInflight
    /\ IF Falsy(query)
       THEN UNCHANGED <<results, meta, logs, loading, inflight, ended, consoleErrors>>
       ELSE /\ results' = <<>>
            /\ meta' = ClearedMeta(meta)
            /\ consoleErrors' = <<>>
            /\ IF role = "internal"
               THEN /\ logs' = <<L_Preparing>>
                    /\ loading' = TRUE
                    /\ Suspend(At(NewRun, "i_delay32"))
                    /\ ended' = <<>>
               ELSE IF Falsy(privateKey)
               THEN /\ logs' = <<L_Preparing, L_NoPrivateKey>>
                    /\ loading' = FinallyLoading(TRUE)
                    /\ Finish(NewRun, "no_key", <<>>, <<>>)
               ELSE IF MissingIdentity(auditor)
               THEN /\ logs' = <<L_Preparing, L_NoIdentity>>
                    /\ loading' = FinallyLoading(TRUE)
                    /\ Finish(NewRun, "no_identity", <<>>, <<>>)
               ELSE /\ logs' = <<L_Preparing>>
                    /\ loading' = TRUE
                    /\ Suspend(At(NewRun, "e_delay64"))
                    /\ ended' = <<>>
    /\ UNCHANGED <<props, query, field, snap>>
    /\ UNCHANGED metricsVars

\* a payload that names its one field keyword, whatever the dropdown says
Payload_internal_keyword(r) == [f \in {"keyword"} |-> r.query]

\* const payload = { [field]: query }, line 35
Payload_internal_jsx(r) == [f \in {r.field} |-> r.query]

\* internal: after delay(300) of line 32, to the await of line 37
AfterDelay32 ==
    \E r \in inflight :
        /\ r.pc = "i_delay32"
        /\ logs' = Append(logs, L_Trapdoor)
        /\ Move(r, [At(r, "i_delay37") EXCEPT
                        !.payload = <<Payload_internal_jsx(r)>>])
        /\ UNCHANGED <<props, query, field, results, meta, loading, ended,
                       consoleErrors, snap>>
        /\ UNCHANGED metricsVars

\* internal: after delay(300) of line 37, api.post is called (line 40)
AfterDelay37 ==
    \E r \in inflight :
        /\ r.pc = "i_delay37"
        /\ logs' = Append(logs, L_SendInternal)
        /\ Move(r, At(r, "i_post40"))
        /\ UNCHANGED <<props, query, field, results, meta, loading, ended,
                       consoleErrors, snap>>
        /\ UNCHANGED metricsVars

\* internal: api.post settles (line 40), lines 42-44 and the finally
AfterPost40 ==
    \E r \in inflight :
        /\ r.pc = "i_post40"
        /\ \/ \E res \in Responses :
                /\ results' = res.results
                /\ meta' = res.meta
                /\ logs' = Append(logs, L_InternalComplete)
                /\ loading' = FinallyLoading(loading)
                /\ Finish(r, "complete", <<>>, <<res>>)
                /\ UNCHANGED consoleErrors
           \/ \E err \in RequestErrors : Catch_jsx(r, err, logs)
        /\ UNCHANGED <<props, query, field, snap>>
        /\ UNCHANGED metricsVars

\* external: after delay(300) of line 64: log, normalizeKeyword (line 67)
AfterDelay64 ==
    \E r \in inflight :
        /\ r.pc = "e_delay64"
        /\ \/ /\ logs' = Append(logs, L_Normalizing)
              /\ Move(r, [At(r, "e_delay69") EXCEPT
                              !.normalized = normalizeKeyword(r.query)])
              /\ UNCHANGED <<results, meta, loading, ended, consoleErrors>>
           \/ \E err \in NormalizeErrors :
                Catch_jsx(r, err, Append(logs, L_Normalizing))
        /\ UNCHANGED <<props, query, field, snap>>
        /\ UNCHANGED metricsVars

\* external: after delay(300) of line 69: log, sha256Hex is called (line 72)
AfterDelay69 ==
    \E r \in inflight :
        /\ r.pc = "e_delay69"
        /\ logs' = Append(logs, L_Hashing)
        /\ Move(r, At(r, "e_hash72"))
        /\ UNCHANGED <<props, query, field, results, meta, loading, ended,
                       consoleErrors, snap>>
        /\ UNCHANGED metricsVars

\* external: sha256Hex settles (line 72), to the await of line 74
AfterHash72 ==
    \E r \in inflight :
        /\ r.pc = "e_hash72"
        /\ \/ /\ Move(r, [At(r, "e_delay74") EXCEPT
                              !.keywordHash = sha256Hex(r.normalized)])
              /\ UNCHANGED <<results, meta, logs, loading, ended, consoleErrors>>
           \/ \E err \in HashErrors : Catch_jsx(r, err, logs)
        /\ UNCHANGED <<props, query, field, snap>>
        /\ UNCHANGED metricsVars

\* a payload that sends the keyword in the clear
Payload_plaintext(r, sig) ==
    [auditor_id |-> r.auditor[1].auditor_id,
     keyword_hash |-> r.query,
     signature |-> sig]

\* const payload = { auditor_id, keyword_hash, signature }, lines 79-83
Payload_jsx(r, sig) ==
    [auditor_id |-> r.auditor[1].auditor_id,
     keyword_hash |-> r.keywordHash,
     signature |-> sig]

\* a run that sends the request without waiting for the signature
AfterDelay74_sendUnsigned ==
    \E r \in inflight :
        /\ r.pc = "e_delay74"
        /\ logs' = Append(logs, L_SendExternal)
        /\ Move(r, [At(r, "e_post88") EXCEPT
                        !.payload = <<Payload_jsx(r, <<>>)>>])
        /\ UNCHANGED <<props, query, field, results, meta, loading, ended,
                       consoleErrors, snap>>
        /\ UNCHANGED metricsVars

\* external: after delay(300) of line 74: log, signHashHex is called (line 77)
AfterDelay74 ==
    \E r \in inflight :
        /\ r.pc = "e_delay74"
        /\ logs' = Append(logs, L_Signing)
        /\ Move(r, At(r, "e_sign77"))
        /\ UNCHANGED <<props, query, field, results, meta, loading, ended,
                       consoleErrors, snap>>
        /\ UNCHANGED metricsVars

\* external: signHashHex settles (line 77), payload, to the await of line 85
AfterSign77 ==
    \E r \in inflight :
        /\ r.pc = "e_sign77"
        /\ \/ LET sig == signHashHex(r.keywordHash, r.privateKey)
              IN  /\ Move(r, [At(r, "e_delay85") EXCEPT
                                  !.signature = sig,
                                  !.payload = <<Payload_jsx(r, sig)>>])
                  /\ UNCHANGED <<results, meta, logs, loading, ended, consoleErrors>>
           \/ \E err \in SignErrors : Catch_jsx(r, err, logs)
        /\ UNCHANGED <<props, query, field, snap>>
        /\ UNCHANGED metricsVars

\* external: after delay(300) of line 85: log, api.post is called (line 88)
AfterDelay85 ==
    \E r \in inflight :
        /\ r.pc = "e_delay85"
        /\ logs' = Append(logs, L_SendExternal)
        /\ Move(r, At(r, "e_post88"))
        /\ UNCHANGED <<props, query, field, results, meta, loading, ended,
                       consoleErrors, snap>>
        /\ UNCHANGED metricsVars

\* external: api.post settles (line 88), lines 90-92 and the finally
AfterPost88 ==
    \E r \in inflight :
        /\ r.pc = "e_post88"
        /\ \/ \E res \in Responses :
                /\ results' = res.results
                /\ meta' = res.meta
                /\ logs' = Append(logs, L_Received)
                /\ loading' = FinallyLoading(loading)
                /\ Finish(r, "complete", <<>>, <<res>>)
                /\ UNCHANGED consoleErrors
           \/ \E err \in RequestErrors : Catch_jsx(r, err, logs)
        /\ UNCHANGED <<props, query, field, snap>>
        /\ UNCHANGED metricsVars

(***************************************************************************)
(* part_000: the second SearchPage, handleSearch, lines 268-330.           *)
(* ../services/internalSearchService and externalSearchService are not     *)
(* among the sources: a call resolves with a response {data: {results},    *)
(* meta} or rejects with an error.                                         *)
(***************************************************************************)
L_SendSSE == <<"Sending to SSE engine...">>
L_Decrypting == <<"Decrypting records...">>
L_NoKey == <<"No auditor key found">>
L_SigningRSA == <<"Signing hash (RSA)...">>
L_Matching == <<"Matching encrypted index...">>
L_ExternalComplete == <<"External search complete">>

\* what externalSearch(query, privateKey) can reject with: it hashes, signs
\* and sends
ExternalSearchErrors == HashErrors \cup SignErrors \cup RequestErrors

\* catch (err) { ... }: the line the catch block logs, line 326
CatchLine_part000(err) == <<"Error: ", err.message>>

\* catch and finally, lines 324-329
Catch_part000(r, err) ==
    /\ consoleErrors' = Append(consoleErrors, err)
    /\ logs' = Append(logs, CatchLine_part000(err))
    /\ loading' = FinallyLoading(loading)
    /\ Finish(r, "failed", <<err>>, <<>>)
    /\ UNCHANGED <<results, meta>>

\* the click, up to the first await (or the return), lines 268-307
handleSearch_part000 ==
    /\ variant = PART000
    /\ ~ButtonDisabled(loading)
    /\ Cardinality(inflight) < MaxInflight
    /\ IF Falsy(query)
       THEN UNCHANGED <<results, meta, logs, loading, inflight, ended, consoleErrors>>
       ELSE /\ results' = <<>>
            /\ meta' = NoMeta
            /\ consoleErrors' = <<>>
            /\ IF role = "internal"
               THEN /\ logs' = <<L_Preparing>>
                    /\ loading' = TRUE
                    /\ Suspend([At(NewRun, "i_delay281") EXCEPT
                                    !.payload = <<[keyword |-> query]>>])
                    /\ ended' = <<>>
               ELSE IF Falsy(privateKey)
               THEN /\ logs' = <<L_Preparing, L_NoKey>>
                    /\ loading' = FinallyLoading(TRUE)
                    /\ Finish(NewRun, "no_key", <<>>, <<>>)
               ELSE /\ logs' = <<L_Preparing>>
                    /\ loading' = TRUE
                    /\ Suspend(At(NewRun, "e_delay307"))
                    /\ ended' = <<>>
    /\ UNCHANGED <<props, query, field, snap>>
    /\ UNCHANGED metricsVars

\* internal: after delay(400) of line 281, to the await of line 284
AfterDelay281 ==
    \E r \in inflight :
        /\ r.pc = "i_delay281"
        /\ logs' = Append(logs, L_Trapdoor)
        /\ Move(r, At(r, "i_delay284"))
        /\ UNCHANGED <<props, query, field, results, meta, loading, ended,
                       consoleErrors, snap>>
        /\ UNCHANGED metricsVars

\* internal: after delay(500) of line 284, internalSearch is called (line 287)
AfterDelay284 ==
    \E r \in inflight :
        /\ r.pc = "i_delay284"
        /\ logs' = Append(logs, L_SendSSE)
        /\ Move(r, At(r, "i_search287"))
        /\ UNCHANGED <<props, query, field, results, meta, loading, ended,
                       consoleErrors, snap>>
        /\ UNCHANGED metricsVars

\* internal: internalSearch settles (line 287), to the await of line 289
AfterSearch287 ==
    \E r \in inflight :
        /\ r.pc = "i_search287"
        /\ \/ \E res \in Responses :
                /\ Move(r, [At(r, "i_delay289") EXCEPT !.res = <<res>>])
                /\ UNCHANGED <<results, meta, logs, loading, ended, consoleErrors>>
           \/ \E err \in RequestErrors : Catch_part000(r, err)
        /\ UNCHANGED <<props, query, field, snap>>
        /\ UNCHANGED metricsVars

\* internal: after delay(500) of line 289, lines 290-295 and the finally
AfterDelay289 ==
    \E r \in inflight :
        /\ r.pc = "i_delay289"
        /\ results' = r.res[1].results
        /\ meta' = r.res[1].meta
        /\ logs' = Append(Append(logs, L_Decrypting), L_InternalComplete)
        /\ loading' = FinallyLoading(loading)
        /\ Finish(r, "complete", <<>>, r.res)
        /\ UNCHANGED <<props, query, field, consoleErrors, snap>>
        /\ UNCHANGED metricsVars

\* external: after delay(400) of line 307, to the await of line 310
AfterDelay307 ==
    \E r \in inflight :
        /\ r.pc = "e_delay307"
        /\ logs' = Append(logs, L_Hashing)
        /\ Move(r, At(r, "e_delay310"))
        /\ UNCHANGED <<props, query, field, results, meta, loading, ended,
                       consoleErrors, snap>>
        /\ UNCHANGED metricsVars

\* external: after delay(500) of line 310, externalSearch(query, privateKey)
\* is called (line 313)
AfterDelay310 ==
    \E r \in inflight :
        /\ r.pc = "e_delay310"
        /\ logs' = Append(logs, L_SigningRSA)
        /\ Move(r, [At(r, "e_search313") EXCEPT
                        !.payload = <<[query |-> r.query, privateKey |-> r.privateKey]>>])
        /\ UNCHANGED <<props, query, field, results, meta, loading, ended,
                       consoleErrors, snap>>
        /\ UNCHANGED metricsVars

\* external: externalSearch settles (line 313), to the await of line 315
AfterSearch313 ==
    \E r \in inflight :
        /\ r.pc = "e_search313"
        /\ \/ \E res \in Responses :
                /\ Move(r, [At(r, "e_delay315") EXCEPT !.res = <<res>>])
                /\ UNCHANGED <<results, meta, logs, loading, ended, consoleErrors>>
           \/ \E err \in ExternalSearchErrors : Catch_part000(r, err)
        /\ UNCHANGED <<props, query, field, snap>>
        /\ UNCHANGED metricsVars

\* external: after delay(500) of line 315, lines 316-321 and the finally
AfterDelay315 ==
    \E r \in inflight :
        /\ r.pc = "e_delay315"
        /\ results' = r.res[1].results
        /\ meta' = r.res[1].meta
        /\ logs' = Append(Append(logs, L_Matching), L_ExternalComplete)
        /\ loading' = FinallyLoading(loading)
        /\ Finish(r, "complete", <<>>, r.res)
        /\ UNCHANGED <<props, query, field, consoleErrors, snap>>
        /\ UNCHANGED metricsVars

(***************************************************************************)
(* What the page renders, as a record of the visible parts.                *)
(***************************************************************************)
\* a page that reports a match for every meta
Render_jsx_nonNegative(ro, q, f, rs, m, lg, ld) ==
    [subtitle |-> IF ro = "internal" THEN "Internal SSE Search"
                  ELSE "External Public-Key Audit Verification",
     dropdown |-> IF ro = "internal" THEN <<f>> ELSE <<>>,
     input |-> q,
     button |-> [disabled |-> ButtonDisabled(ld),
                 label |-> IF ld THEN "Searching..." ELSE "Search"],
     decrypted |-> IF ro = "internal" THEN <<rs>> ELSE <<>>,
     audit |-> IF ro = "external" /\ m # NoMeta
               THEN <<[Query |-> q,
                       MatchExists |-> IF m[1].total_matches >= 0 THEN "YES" ELSE "NO",
                       ResultSetSize |-> m[1].total_matches,
                       ResponsePadding |-> "Fixed-size protected response",
                       ExecutionTime |-> m[1].execution_time_ms,
                       DataVisibility |-> "Encrypted (Auditor-level access)"]>>
               ELSE <<>>,
     logs |-> lg]

\* SearchPage.jsx, lines 111-247
Render_jsx(ro, q, f, rs, m, lg, ld) ==
    [subtitle |-> IF ro = "internal" THEN "Internal SSE Search"
                  ELSE "External Public-Key Audit Verification",
     dropdown |-> IF ro = "internal" THEN <<f>> ELSE <<>>,
     input |-> q,
     button |-> [disabled |-> ButtonDisabled(ld),
                 label |-> IF ld THEN "Searching..." ELSE "Search"],
     decrypted |-> IF ro = "internal" THEN <<rs>> ELSE <<>>,
     audit |-> IF ro = "external" /\ m # NoMeta
               THEN <<[Query |-> q,
                       MatchExists |-> IF m[1].total_matches > 0 THEN "YES" ELSE "NO",
                       ResultSetSize |-> m[1].total_matches,
                       ResponsePadding |-> "Fixed-size protected response",
                       ExecutionTime |-> m[1].execution_time_ms,
                       DataVisibility |-> "Encrypted (Auditor-level access)"]>>
               ELSE <<>>,
     logs |-> lg]

\* part_000, lines 332-420
Render_part000(ro, q, f, rs, m, lg, ld) ==
    [subtitle |-> IF ro = "internal" THEN "Internal SSE Search"
                  ELSE "External Public-Key Search",
     input |-> q,
     button |-> [disabled |-> ButtonDisabled(ld),
                 label |-> IF ld THEN "Searching..." ELSE "Search"],
     results |-> rs,
     logs |-> lg,
     metrics |-> IF m # NoMeta
                 THEN <<[Matches |-> m[1].total_matches,
                         Returned |-> m[1].returned_count,
                         Time |-> m[1].execution_time_ms,
                         Truncated |-> IF m[1].truncated THEN "Yes" ELSE "No"]>>
                 ELSE <<>>]

Render(v, ro, q, f, rs, m, lg, ld) ==
    IF v = JSX THEN Render_jsx(ro, q, f, rs, m, lg, ld)
    ELSE Render_part000(ro, q, f, rs, m, lg, ld)

\* what the mounted page shows in the current state
View == Render(variant, role, query, field, results, meta, logs, loading)

\* a click on the search button of the mounted page
HandleSearchAny == handleSearch_jsx \/ handleSearch_part000

Next ==
    \/ \E q \in Queries : setQuery(q)
    \/ \E f \in FieldOptions : setField(f)
    \/ \E ro \in Roles : SetRole(ro)
    \/ \E au \in Auditors : SetAuditor(au)
    \/ \E pk \in Keys : SetPrivateKey(pk)
    \/ handleSearch_jsx
    \/ AfterDelay32
    \/ AfterDelay37
    \/ AfterPost40
    \/ AfterDelay64
    \/ AfterDelay69
    \/ AfterHash72
    \/ AfterDelay74
    \/ AfterSign77
    \/ AfterDelay85
    \/ AfterPost88
    \/ handleSearch_part000
    \/ AfterDelay281
    \/ AfterDelay284
    \/ AfterSearch287
    \/ AfterDelay289
    \/ AfterDelay307
    \/ AfterDelay310
    \/ AfterSearch313
    \/ AfterDelay315

Spec == Init /\ [][Next]_vars

\* the continuations of handleSearch: a timer of delay() fires, or an awaited
\* call (sha256Hex, signHashHex, api.post, a search service) settles
Resume ==
    \/ AfterDelay32 \/ AfterDelay37 \/ AfterPost40
    \/ AfterDelay64 \/ AfterDelay69 \/ AfterHash72 \/ AfterDelay74
    \/ AfterSign77 \/ AfterDelay85 \/ AfterPost88
    \/ AfterDelay281 \/ AfterDelay284 \/ AfterSearch287 \/ AfterDelay289
    \/ AfterDelay307 \/ AfterDelay310 \/ AfterSearch313 \/ AfterDelay315

\* every timer fires and every awaited call settles: a suspended run is
\* eventually resumed
LiveSpec == Spec /\ WF_vars(Resume)

\* an observer keeps the log and the console output of one ended search, to
\* compare a later search with it
Observe ==
    /\ inflight = {}
    /\ ended # <<>>
    /\ snap = <<>>
    /\ snap' = <<[ended |-> ended[1], logs |-> logs, console |-> consoleErrors]>>
    /\ UNCHANGED <<props, query, field, results, meta, logs, loading, inflight,
                   ended, consoleErrors>>
    /\ UNCHANGED metricsVars

\* searches of one page with a fixed role and auditor, in which the query and
\* the private key change between searches, watched by the observer
NextNI ==
    \/ \E q \in Queries : setQuery(q)
    \/ \E pk \in Keys : SetPrivateKey(pk)
    \/ HandleSearchAny
    \/ Resume
    \/ Observe

SpecNI == Init /\ [][NextNI]_vars


(***************************************************************************)
(* MetricsPage, part_000 lines 1-254.  A call of fetchMetrics is one       *)
(* segment up to its await of api.get and one after it; it keeps the       *)
(* isInternal of the render that created it.  ./CreateAuditorCard is not   *)
(* among the sources: it is taken to call onCreated while it is mounted.   *)
(***************************************************************************)
\* safe(val), lines 54-55, of a field that may be missing
safe(val) == IF val = <<>> THEN 0 ELSE val[1]

\* what the page renders, lines 48-254
MetricsRender(ro, ld, er, idata, edata) ==
    IF ld THEN [kind |-> "loading"]
    ELSE IF er # NoError THEN [kind |-> "error", text |-> er]
    ELSE IF ~isInternal(ro)
    THEN [kind |-> "external",
          total_documents |-> safe(IF edata = NoData THEN <<>>
                                   ELSE edata[1].total_documents)]
    ELSE [kind |-> "internal",
          total_documents |-> safe(IF idata = NoData THEN <<>>
                                   ELSE idata[1].total_documents),
          auditors |-> IF idata = NoData THEN 0 ELSE idata[1].auditors]

MetricsView ==
    MetricsRender(metricsRole, metricsLoading, metricsError, internalData,
                  externalData)

\* fetchMetrics up to its await, lines 15-23, called from a render whose
\* isInternal is int
StartFetch(int) ==
    /\ Cardinality(fetches) < MaxFetches
    /\ metricsLoading' = TRUE
    /\ fetches' = fetches \cup {[id |-> FreeId(fetches), isInternal |-> int]}

\* the parent renders the page with another role; the effect of lines 34-36
\* runs when resolvedRole has changed
SetMetricsRole(ro) ==
    /\ ro # metricsRole
    /\ metricsRole' = ro
    /\ IF resolvedRole(ro) # resolvedRole(metricsRole)
       THEN StartFetch(isInternal(ro))
       ELSE UNCHANGED <<metricsLoading, fetches>>
    /\ UNCHANGED <<internalData, externalData, metricsError, deletes, settled,
                   metricsConsole, alerted>>
    /\ UNCHANGED searchVars

\* api.get resolves: lines 21 or 24, and the finally
FetchResolved ==
    \E f \in fetches, d \in MetricsPayloads :
        /\ IF f.isInternal
           THEN internalData' = OrEmptyObject(d) /\ UNCHANGED externalData
           ELSE externalData' = OrEmptyObject(d) /\ UNCHANGED internalData
        /\ metricsLoading' = FALSE
        /\ fetches' = fetches \ {f}
        /\ settled' = <<[ok |-> TRUE, isInternal |-> f.isInternal]>>
        /\ UNCHANGED <<metricsRole, metricsError, deletes, metricsConsole, alerted>>
        /\ UNCHANGED searchVars

\* api.get rejects: the catch of lines 26-28, and the finally
FetchRejected ==
    \E f \in fetches, err \in RequestErrors :
        /\ metricsConsole' = <<err>>
        /\ metricsError' = ErrorText
        /\ metricsLoading' = FALSE
        /\ fetches' = fetches \ {f}
        /\ settled' = <<[ok |-> FALSE, isInternal |-> f.isInternal]>>
        /\ UNCHANGED <<metricsRole, internalData, externalData, deletes, alerted>>
        /\ UNCHANGED searchVars

\* CreateAuditorCard calls onCreated={fetchMetrics}, line 104: the card is
\* part of the internal view
onCreated ==
    /\ MetricsView.kind = "internal"
    /\ StartFetch(TRUE)
    /\ UNCHANGED <<metricsRole, internalData, externalData, metricsError,
                   deletes, settled, metricsConsole, alerted>>
    /\ UNCHANGED searchVars

\* a click on Delete of an auditor of the internal view, lines 153-160, up to
\* the await of line 40
handleDeleteAuditor ==
    /\ MetricsView.kind = "internal"
    /\ Cardinality(deletes) < MaxFetches
    /\ \E a \in 1..MetricsView.auditors :
          deletes' = deletes \cup {[id |-> FreeId(deletes), auditorId |-> a]}
    /\ UNCHANGED <<metricsRole, internalData, externalData, metricsLoading,
                   metricsError, fetches, settled, metricsConsole, alerted>>
    /\ UNCHANGED searchVars

\* api.delete resolves: fetchMetrics of the render the click happened in,
\* line 41
DeleteResolved ==
    \E dl \in deletes :
        /\ deletes' = deletes \ {dl}
        /\ StartFetch(TRUE)
        /\ UNCHANGED <<metricsRole, internalData, externalData, metricsError,
                       settled, metricsConsole, alerted>>
        /\ UNCHANGED searchVars

\* api.delete rejects: lines 42-45
DeleteRejected ==
    \E dl \in deletes, err \in RequestErrors :
        /\ deletes' = deletes \ {dl}
        /\ metricsConsole' = <<"Delete failed:", err>>
        /\ alerted' = <<"Failed to delete auditor">>
        /\ UNCHANGED <<metricsRole, internalData, externalData, metricsLoading,
                       metricsError, fetches, settled>>
        /\ UNCHANGED searchVars

\* the metrics page alone, mounted with any role, beside a search page that
\* is left untouched
MetricsInit ==
    /\ variant = JSX
    /\ role = "internal"
    /\ auditor = NoAuditor
    /\ privateKey = NoKey
    /\ query = EmptyQuery
    /\ field = "pan"
    /\ results = <<>>
    /\ meta = NoMeta
    /\ logs = <<L_Awaiting>>
    /\ loading = FALSE
    /\ inflight = {}
    /\ ended = <<>>
    /\ consoleErrors = <<>>
    /\ snap = <<>>
    /\ \E ro \in MetricsRoles : MetricsMounted(ro)

MetricsNext ==
    \/ \E ro \in MetricsRoles : SetMetricsRole(ro)
    \/ FetchResolved
    \/ FetchRejected
    \/ onCreated
    \/ handleDeleteAuditor
    \/ DeleteResolved
    \/ DeleteRejected

MetricsSpec == MetricsInit /\ [][MetricsNext]_vars


(***************************************************************************)
(* Properties.                                                             *)
(***************************************************************************)
\* a click on the search button, in either source
HandleSearch == HandleSearchAny

\* the requests of SearchPage.jsx to /api/search/external/ that are on the wire
ExternalRequests_jsx ==
    {r \in inflight : variant = JSX /\ r.pc = "e_post88"}

BodyFields == {"auditor_id", "keyword_hash", "signature"}

\* C1 as claimed: every request SearchPage.jsx sends to /api/search/external/
\* has exactly the fields auditor_id, keyword_hash and signature, with
\* keyword_hash the hash of the normalized query and signature the signature
\* of that hash, and no field of the body has the raw query as its value.
C1_NoFieldCarriesRawQuery ==
    \A r \in ExternalRequests_jsx :
        LET body == r.payload[1]
        IN  /\ DOMAIN body = BodyFields
            /\ body.keyword_hash = sha256Hex(normalizeKeyword(r.query))
            /\ body.signature = signHashHex(body.keyword_hash, r.privateKey)
            /\ \A f \in DOMAIN body : body[f] # r.query

\* C1 as amended: the body has exactly the three fields; auditor_id is the
\* auditor's id (so it equals the query only when the user searches for that
\* id), keyword_hash is the hash of the normalized query, signature the
\* signature of that hash under the private key, and neither of these two has
\* the raw query as its value; the query is non-empty and the key present.
C1_ExternalBodyIsHashAndSignature ==
    \A r \in ExternalRequests_jsx :
        LET body == r.payload[1]
        IN  /\ ~Falsy(r.query) /\ ~Falsy(r.privateKey)
            /\ DOMAIN body = BodyFields
            /\ body.auditor_id = r.auditor[1].auditor_id
            /\ body.keyword_hash = sha256Hex(normalizeKeyword(r.query))
            /\ body.signature = signHashHex(body.keyword_hash, r.privateKey)
            /\ body.keyword_hash # r.query
            /\ body.signature # r.query

\* a request is on the wire for a query that normalization changes
C1_Witness ==
    \E r \in ExternalRequests_jsx :
        /\ normalizeKeyword(r.query) # r.query
        /\ r.payload[1].auditor_id # r.query

\* the line that reports a missing private key, in either source
MissingKeyLine == IF variant = JSX THEN L_NoPrivateKey ELSE L_NoKey

\* C2: a click with the external role, a non-empty query and no private key
\* ends the search in that same step: the log is the preparing line followed
\* by the missing-key reason, no run is left suspended (so no normalize, hash
\* or sign stage and no network call follows), and loading is false.
C2_MissingKeyFailsFast ==
    [][ (HandleSearch /\ role = "external" /\ ~Falsy(query) /\ Falsy(privateKey))
          => /\ logs' = <<L_Preparing, MissingKeyLine>>
             /\ inflight' = {}
             /\ loading' = FALSE
             /\ ended' # <<>> /\ ended'[1].exit = "no_key" ]_vars

\* a search has just ended for want of a private key
C2_Witness ==
    /\ ended # <<>>
    /\ ended[1].exit = "no_key"
    /\ Last(logs) = MissingKeyLine
    /\ ~loading

C4_AtMostOneSearchInFlight ==
    /\ Cardinality(inflight) <= 1
    /\ inflight # {} => loading /\ View.button.disabled

\* a run is suspended at its request while the user has typed another query
C4_Witness ==
    \E r \in inflight :
        /\ r.pc \in {"e_post88", "i_post40", "e_search313", "i_search287"}
        /\ query # r.query
        /\ ~Falsy(query)

\* C5: a search that has ended, however it ended, leaves loading false and
\* the search button enabled; and, every timer firing and every awaited call
\* settling, whenever loading is true it is eventually false again.
C5_ControlReturnsAfterFailure ==
    /\ [](inflight = {} => ~loading /\ ~View.button.disabled)
    /\ [](loading => <>(~loading))

\* a search has failed with a caught error, and the button is enabled again
C5_Witness ==
    /\ ended # <<>>
    /\ ended[1].exit = "failed"
    /\ inflight = {}
    /\ ~View.button.disabled

\* C6 as claimed: after a search that failed with a caught error, the last
\* log line is "Error: " followed by the code alone when the error carries
\* error.code, and otherwise a line none of whose parts is the error's
\* message or name.
C6_FailureReportedByCodeOrGenerically ==
    (ended # <<>> /\ ended[1].exit = "failed" /\ inflight = {})
        => LET e == ended[1].err[1]
               line == Last(logs)
           IN  IF e.hasError
               THEN line = <<"Error: ", e.code>>
               ELSE \A i \in 1..Len(line) : line[i] \notin {e.message, e.name}

\* two ended searches took the same path: same role, field and auditor, same
\* place of return, same error caught, same response received
SamePath(a, b) ==
    /\ a.exit = b.exit
    /\ a.err = b.err
    /\ a.run.pc = b.run.pc
    /\ a.run.res = b.run.res
    /\ a.run.role = b.run.role
    /\ a.run.field = b.run.field
    /\ a.run.auditor = b.run.auditor

\* two ended searches differ only in the query, or only in the private key
DifferInOneSecret(a, b) ==
    \/ a.run.query # b.run.query /\ a.run.privateKey = b.run.privateKey
    \/ a.run.query = b.run.query /\ a.run.privateKey # b.run.privateKey

C8_NoRecordsRenderedForExternal ==
    role = "external"
        => View = Render(variant, role, query, field, <<>>, meta, logs, loading)

\* C9: in SearchPage.jsx, after an external search that completed and while
\* the role is external, the Audit Verification Result panel is shown exactly
\* when the response carried a meta, and its Match Exists value is YES when
\* that meta's total_matches is above 0 and NO otherwise; in no state is the
\* panel shown without a meta.
C9_MatchExistsIffTotalMatchesPositive ==
    /\ (variant = JSX /\ View.audit # <<>>) => meta # NoMeta
    /\ (variant = JSX /\ role = "external" /\ inflight = {} /\ ended # <<>>
            /\ ended[1].exit = "complete" /\ ended[1].run.role = "external")
        => LET m == ended[1].run.res[1].meta
           IN  /\ (View.audit # <<>>) <=> (m # NoMeta)
               /\ m # NoMeta =>
                    View.audit[1].MatchExists =
                        (IF m[1].total_matches > 0 THEN "YES" ELSE "NO")

\* an external search completed with total_matches = 0 and the panel says NO
C9_Witness ==
    /\ variant = JSX /\ role = "external" /\ inflight = {}
    /\ ended # <<>> /\ ended[1].exit = "complete" /\ ended[1].run.role = "external"
    /\ meta # NoMeta /\ meta[1].total_matches = 0
    /\ View.audit # <<>> /\ View.audit[1].MatchExists = "NO"

\* the stage of the specification's state machine (section 4.3) that a
\* suspended external run of SearchPage.jsx is in
StageOf(pc) ==
    CASE pc = "e_delay64" -> "Preparing"
      [] pc = "e_delay69" -> "Normalizing"
      [] pc \in {"e_hash72", "e_delay74"} -> "Hashing"
      [] pc \in {"e_sign77", "e_delay85"} -> "Signing"
      [] pc = "e_post88" -> "AwaitingResponse"
      [] OTHER -> "Other"

ExternalRuns_jsx == {r \in inflight : variant = JSX /\ r.role = "external"}

\* the stage of the page's external search: that of the suspended run, or how
\* the last one ended, or Idle
ExtStage ==
    IF ExternalRuns_jsx # {}
    THEN StageOf((CHOOSE r \in ExternalRuns_jsx : TRUE).pc)
    ELSE IF variant = JSX /\ inflight = {} /\ ended # <<>>
            /\ ended[1].run.role = "external"
    THEN (IF ended[1].exit = "complete" THEN "Complete" ELSE "Failed")
    ELSE "Idle"

Resting == {"Idle", "Complete", "Failed"}
Running == {"Preparing", "Normalizing", "Hashing", "Signing", "AwaitingResponse"}

\* the steps of section 4.3: a search starts from rest; each stage has the
\* one successor; any stage may fail; a start may fail at once
StageSteps ==
    {<<a, "Preparing">> : a \in Resting}
        \cup {<<"Preparing", "Normalizing">>, <<"Normalizing", "Hashing">>,
              <<"Hashing", "Signing">>, <<"Signing", "AwaitingResponse">>,
              <<"AwaitingResponse", "Complete">>}
        \cup {<<a, "Failed">> : a \in Running \cup Resting}
        \cup {<<a, "Idle">> : a \in Resting}

\* C10: the external search of SearchPage.jsx changes stage only along
\* Idle, Preparing, Normalizing, Hashing, Signing, AwaitingResponse, Complete
\* (or to Failed), so a search that completes has passed every stage once and
\* in that order; in every stage the values computed so far are the
\* normalized query, its hash and that hash's signature, no value is computed
\* ahead of its stage, and a request is on the wire only with the signature
\* computed.
C10_StagesInOrder ==
    [][ /\ ExtStage' # ExtStage => <<ExtStage, ExtStage'>> \in StageSteps
        /\ \A r \in ExternalRuns_jsx' :
              LET st == StageOf(r.pc)
                  computed(x) == x # <<>>
              IN  /\ st \in Running
                  /\ st = "Preparing" => r.normalized = <<>>
                  /\ st # "Preparing" => r.normalized = normalizeKeyword(r.query)
                  /\ computed(r.keywordHash) <=>
                        (r.pc = "e_delay74" \/ st \in {"Signing", "AwaitingResponse"})
                  /\ computed(r.keywordHash) => r.keywordHash = sha256Hex(r.normalized)
                  /\ computed(r.signature) <=>
                        (r.pc = "e_delay85" \/ st = "AwaitingResponse")
                  /\ computed(r.signature) =>
                        r.signature = signHashHex(r.keywordHash, r.privateKey)
                  /\ st = "AwaitingResponse" =>
                        /\ r.payload # <<>>
                        /\ r.payload[1].keyword_hash = r.keywordHash
                        /\ r.payload[1].signature = r.signature ]_vars

\* an external search of SearchPage.jsx has completed
C10_Witness ==
    /\ ExtStage = "Complete"
    /\ Last(logs) = L_Received

\* the stage of an external search of SearchPage.jsx that threw, from the
\* await the run was at when it entered the catch block
FailedStage(pc) ==
    CASE pc = "e_delay64" -> "Normalizing"
      [] pc = "e_hash72" -> "Hashing"
      [] pc = "e_sign77" -> "Signing"
      [] pc = "e_post88" -> "AwaitingResponse"
      [] OTHER -> "Other"

\* two external searches of SearchPage.jsx failed with a caught error, in
\* different stages
FailedInDifferentStages(a, b) ==
    /\ variant = JSX
    /\ a.exit = "failed" /\ b.exit = "failed"
    /\ a.run.role = "external" /\ b.run.role = "external"
    /\ FailedStage(a.run.pc) # FailedStage(b.run.pc)

\* C11 as claimed: two searches that failed in different stages (normalizing,
\* hashing, signing, the network call) end their logs with different failure
\* lines: the failure line tells which stage failed.
C11_FailureLineIdentifiesStage ==
    (snap # <<>> /\ ended # <<>> /\ inflight = {}
        /\ FailedInDifferentStages(snap[1].ended, ended[1]))
        => Last(logs) # Last(snap[1].logs)

\* the requests of SearchPage.jsx to /api/search/internal/ that are on the wire
InternalRequests_jsx ==
    {r \in inflight : variant = JSX /\ r.pc = "i_post40"}

\* C12: in SearchPage.jsx the selected field is always one of the five options
\* of the dropdown, and every request to /api/search/internal/ has a body
\* with exactly one field, named by the field selected when the search began
\* (one of the five options), whose value is the query.
C12_InternalBodyIsOneEnumeratedField ==
    /\ variant = JSX => field \in FieldOptions
    /\ \A r \in InternalRequests_jsx :
          /\ r.role = "internal"
          /\ r.payload # <<>>
          /\ LET body == r.payload[1]
             IN  /\ Cardinality(DOMAIN body) = 1
                 /\ DOMAIN body = {r.field}
                 /\ DOMAIN body \subseteq FieldOptions
                 /\ \A f \in DOMAIN body : body[f] = r.query

\* a request is on the wire for a field chosen in the dropdown
C12_Witness ==
    \E r \in InternalRequests_jsx :
        /\ r.field # "pan"
        /\ r.payload[1][r.field] = r.query

\* the awaits (and the call of normalizeKeyword after the first delay) at
\* which a run can throw
ThrowingAwaits ==
    {"e_delay64", "e_hash72", "e_sign77", "e_post88", "i_post40",
     "i_search287", "e_search313"}

\* how a run that did not throw returns
NormalExits == {"complete", "no_key", "no_identity"}

\* C13: a step in which a stage throws ends the search in that step: the run
\* was suspended at the stage that threw and is gone afterwards (no later
\* stage runs; a failed normalize, hash or sign leaves no request built),
\* the error is caught (the run returns, as failed), and results and meta are
\* empty; and while a search is the last ended one and failed, results and
\* meta stay empty and nothing is in flight.
C13_FailureMovesDirectlyToFailed ==
    /\ [](ended # <<>> /\ ended[1].exit \notin NormalExits
            => /\ ended[1].exit = "failed"
               /\ results = <<>> /\ meta = NoMeta /\ inflight = {})
    /\ [][ (ended' # ended /\ ended' # <<>> /\ ended'[1].exit \notin NormalExits)
            => /\ ended'[1].exit = "failed"
               /\ ended'[1].err # <<>>
               /\ \E r \in inflight :
                     /\ r.pc \in ThrowingAwaits
                     /\ ended'[1].run = r
               /\ inflight' = {}
               /\ results' = <<>> /\ meta' = NoMeta
               /\ ended'[1].run.pc \in {"e_delay64", "e_hash72", "e_sign77"}
                     => ended'[1].run.payload = <<>> ]_vars

\* signHashHex rejected: the search failed before a request was built
C13_Witness ==
    /\ ended # <<>>
    /\ ended[1].exit = "failed"
    /\ ended[1].run.pc = "e_sign77"
    /\ ended[1].run.payload = <<>>
    /\ inflight = {} /\ results = <<>> /\ meta = NoMeta

IsPrefix(a, b) == Len(a) <= Len(b) /\ SubSeq(b, 1, Len(a)) = a

\* the log of SearchPage.jsx while a run is suspended at pc
StageLog(pc) ==
    CASE pc \in {"i_delay32", "e_delay64"} -> <<L_Preparing>>
      [] pc = "i_delay37" -> <<L_Preparing, L_Trapdoor>>
      [] pc = "i_post40" -> <<L_Preparing, L_Trapdoor, L_SendInternal>>
      [] pc = "e_delay69" -> <<L_Preparing, L_Normalizing>>
      [] pc \in {"e_hash72", "e_delay74"} ->
            <<L_Preparing, L_Normalizing, L_Hashing>>
      [] pc \in {"e_sign77", "e_delay85"} ->
            <<L_Preparing, L_Normalizing, L_Hashing, L_Signing>>
      [] pc = "e_post88" ->
            <<L_Preparing, L_Normalizing, L_Hashing, L_Signing, L_SendExternal>>
      [] OTHER -> <<>>

\* the log when the operation the run was at threw: normalizeKeyword runs in
\* the segment that follows the delay of line 64, after its line is logged
LoggedBeforeThrow(pc) ==
    IF pc = "e_delay64" THEN <<L_Preparing, L_Normalizing>> ELSE StageLog(pc)

CompletionLines == {L_InternalComplete, L_Received}

\* C14: in SearchPage.jsx, a step either starts a search, and then the log
\* begins anew with the preparing line, or leaves the log as it is or longer
\* with its lines kept; while a run is suspended at a stage the log is the
\* lines of the stages so far, ending with that stage's line; after a failure
\* the log is those lines followed by the failure line; and once a search has
\* ended a completion line is the last line exactly when the search
\* completed, and never while one is running.
C14_LogGrowsByAppending ==
    /\ [](variant = JSX =>
            /\ \A r \in inflight :
                  /\ logs = StageLog(r.pc)
                  /\ Last(logs) \notin CompletionLines
            /\ ended # <<>> =>
                  /\ Last(logs) \in CompletionLines <=> ended[1].exit = "complete"
                  /\ ended[1].exit = "complete" =>
                        Front(logs) = StageLog(ended[1].run.pc)
                  /\ ended[1].exit = "failed" =>
                        /\ Front(logs) = LoggedBeforeThrow(ended[1].run.pc)
                        /\ Last(logs) = CatchLine_jsx(ended[1].err[1]))
    /\ [][ variant = JSX =>
            \/ IsPrefix(logs, logs')
            \/ /\ handleSearch_jsx /\ ~Falsy(query)
               /\ logs'[1] = L_Preparing
               /\ Len(logs') <= 2 ]_vars

\* a search failed at the request: five stage lines, then the failure line
C14_Witness ==
    /\ variant = JSX
    /\ ended # <<>> /\ ended[1].exit = "failed"
    /\ ended[1].run.pc = "e_post88"
    /\ Len(logs) = 6
    /\ Front(logs) = StageLog("e_post88")

\* C15: while a search is running results is empty and meta is null; after a
\* search that failed or was rejected for a missing key or identity they are
\* empty and null too; and whenever meta is not null or results is not empty,
\* the search started last has completed and they are the meta and the
\* results of its response.
C15_StaleResultsNeverShown ==
    /\ inflight # {} => results = <<>> /\ meta = NoMeta
    /\ (ended # <<>> /\ ended[1].exit # "complete")
            => results = <<>> /\ meta = NoMeta
    /\ (meta # NoMeta \/ results # <<>>)
            => /\ inflight = {}
               /\ ended # <<>>
               /\ ended[1].exit = "complete"
               /\ meta = ended[1].run.res[1].meta
               /\ results = ended[1].run.res[1].results

\* a second search is running after one that completed with a meta and a
\* record: nothing of the first is left
C15_Witness ==
    /\ variant = JSX
    /\ snap # <<>>
    /\ snap[1].ended.exit = "complete"
    /\ snap[1].ended.run.res[1].meta # NoMeta
    /\ snap[1].ended.run.res[1].results # <<>>
    /\ inflight # {}
    /\ results = <<>> /\ meta = NoMeta

\* C16 as claimed: whenever SearchPage.jsx shows the Audit Verification
\* Result panel after an external search that completed, the Query value of
\* the panel is the query that search hashed and submitted.
C16_DisplayedQueryIsSubmittedOne ==
    (variant = JSX /\ View.audit # <<>> /\ inflight = {}
        /\ ended # <<>> /\ ended[1].exit = "complete"
        /\ ended[1].run.role = "external")
        => View.audit[1].Query = ended[1].run.query

\* C17 as claimed: in MetricsPage, when the fetch that settled last succeeded
\* and none is pending, the page shows a metrics view, not the error view.
C17_SuccessClearsError ==
    (settled # <<>> /\ settled[1].ok /\ fetches = {})
        => MetricsView.kind \in {"internal", "external"}

\* C18 as claimed: in MetricsPage the loading flag is false only when no call
\* of fetchMetrics is pending, so the page stays in the loading view until
\* every pending fetch has settled.
C18_LoadingUntilAllFetchesSettle ==
    fetches # {} => metricsLoading /\ MetricsView.kind = "loading"

\* C19: a click on Search while the query is the empty string changes
\* nothing, in either source and for every role: results, meta, logs and
\* loading stay as they are, no run of handleSearch is created (so no crypto
\* operation and no network call follows) and nothing is written to the
\* console.
C19_EmptyQueryIsNoOp ==
    [][ (HandleSearch /\ query = EmptyQuery)
          => UNCHANGED <<results, meta, logs, loading, inflight, ended,
                         consoleErrors, query, field>> ]_vars

\* the query is empty and the button enabled on a page that shows the meta,
\* the record and the log of a completed search: a click here must leave them
C19_Witness ==
    /\ query = EmptyQuery
    /\ ~View.button.disabled
    /\ results # <<>> /\ meta # NoMeta
    /\ Len(logs) > 1
    /\ ended # <<>> /\ ended[1].exit = "complete"

=============================================================================
